---------------------------- MODULE Spec2Model ----------------------------
(***************************************************************************)
(* Budget ledger of the financial chatbot backend: the FinancialChatbot    *)
(* class (financial_chatbot.py) and the Flask routes that own one ledger   *)
(* per session (app.py).                                                   *)
(*                                                                         *)
(* Numbers are Python floats.  They are modelled exactly, as reduced       *)
(* fractions <<n, d>> with d > 0, plus the one value NaN == <<0, 0>> that  *)
(* pandas puts in the cells of a column a row does not have.               *)
(***************************************************************************)
EXTENDS Integers, Sequences, FiniteSets, TLC

VARIABLES
    in_sessions,   \* session_id in chatbot_sessions
    dataframes,    \* chatbot_sessions[session_id]['dataframes'] (the 'df' of each item)
    budget,        \* chatbot_sessions[session_id]['budget']: <<>> is None, else <<goals>>
    chatbot,       \* chatbot_sessions[session_id]['chatbot']: <<>> is None, else <<ledger>>
    resp,          \* the HTTP status of the last response (0: none yet)
    goal_input,    \* the goal triple a caller passes: [base, scale], sent as scale * base
    request,       \* the arguments of the library call under study
    result,        \* what that call returned or raised: <<>> is not called yet
    chatbot_sessions, \* session_id -> its entry, for requests of several sessions
    uploads,       \* the files of UPLOAD_FOLDER: path -> content
    threads        \* the requests being served at once: where each is, its locals

vars == <<in_sessions, dataframes, budget, chatbot, resp, goal_input, request, result,
          chatbot_sessions, uploads, threads>>

(***************************************************************************)
(* Bounds of the model.                                                    *)
(***************************************************************************)
MaxFiles   == 2    \* uploads kept in one session
MaxRows    == 1    \* rows of one normalized file
MaxMonthly == 1    \* manually added transactions of one ledger
MaxCalls   == 2    \* calls made by the caller of one library function
MaxTableRows == 3  \* rows of the table read from one file
MaxSeries  == 2    \* cells of the series passed to one _parse_money call

(***************************************************************************)
(* Float arithmetic.                                                       *)
(***************************************************************************)
RECURSIVE Gcd(_, _)
Gcd(a, b) == IF b = 0 THEN a ELSE Gcd(b, a % b)

IAbs(i) == IF i < 0 THEN -i ELSE i

Float(n, d) ==
    LET g == Gcd(IAbs(n), IAbs(d))
        s == IF d < 0 THEN -1 ELSE 1
    IN  <<(s * n) \div g, (s * d) \div g>>

NaN == <<0, 0>>
IsNaN(x) == x[2] = 0

Num(i) == <<i, 1>>
Zero == Num(0)
One == Num(1)

FAdd(x, y) ==
    IF IsNaN(x) \/ IsNaN(y) THEN NaN
    ELSE Float(x[1] * y[2] + y[1] * x[2], x[2] * y[2])

FSub(x, y) ==
    IF IsNaN(x) \/ IsNaN(y) THEN NaN
    ELSE Float(x[1] * y[2] - y[1] * x[2], x[2] * y[2])

FMul(x, y) ==
    IF IsNaN(x) \/ IsNaN(y) THEN NaN
    ELSE Float(x[1] * y[1], x[2] * y[2])

\* x / y for y # 0; the callers raise ZeroDivisionError for y = 0 first
FDiv(x, y) ==
    IF IsNaN(x) \/ IsNaN(y) THEN NaN
    ELSE Float(x[1] * y[2], x[2] * y[1])

FAbs(x) == <<IAbs(x[1]), x[2]>>

\* x > y; any comparison with NaN is False
FGt(x, y) == ~IsNaN(x) /\ ~IsNaN(y) /\ x[1] * y[2] > y[1] * x[2]

\* a number given in hundredths: Pct(70) is 0.70, Pct(7000) is 70
Pct(h) == Float(h, 100)

Tolerance == Pct(1)          \* 0.01
PercentThreshold == Pct(150) \* 1.5

Goals(e, w, s) == [expenses |-> e, wants |-> w, savings |-> s]
DefaultGoals == Goals(Pct(70), Pct(20), Pct(10))
GoalSum(g) == FAdd(FAdd(g.expenses, g.wants), g.savings)

Raised == [raised |-> TRUE]
Returned(v) == [raised |-> FALSE, value |-> v]

(***************************************************************************)
(* app.py: parse_budget_input.  The three inputs are numbers; when the     *)
(* total is 0 the division raises ZeroDivisionError, which the function    *)
(* does not catch.                                                         *)
(***************************************************************************)
parse_budget_input_unnormalized(expenses, wants, savings) ==
    LET total0 == FAdd(FAdd(expenses, wants), savings)
        pct == FGt(total0, PercentThreshold)
        e1 == IF pct THEN FDiv(expenses, Num(100)) ELSE expenses
        w1 == IF pct THEN FDiv(wants, Num(100)) ELSE wants
        s1 == IF pct THEN FDiv(savings, Num(100)) ELSE savings
    IN  Returned(Goals(e1, w1, s1))

parse_budget_input(expenses, wants, savings) ==
    LET total0 == FAdd(FAdd(expenses, wants), savings)
        pct == FGt(total0, PercentThreshold)
        e1 == IF pct THEN FDiv(expenses, Num(100)) ELSE expenses
        w1 == IF pct THEN FDiv(wants, Num(100)) ELSE wants
        s1 == IF pct THEN FDiv(savings, Num(100)) ELSE savings
        total == IF pct THEN FAdd(FAdd(e1, w1), s1) ELSE total0
    IN  IF FGt(FAbs(FSub(total, One)), Tolerance)
        THEN IF total = Zero THEN Raised
             ELSE Returned(Goals(FDiv(e1, total), FDiv(w1, total), FDiv(s1, total)))
        ELSE Returned(Goals(e1, w1, s1))

(***************************************************************************)
(* financial_chatbot.py: FinancialChatbot.set_budget_goals.  `self` is a   *)
(* ledger record; the result says whether the call raised and gives the    *)
(* ledger as the call left it.                                             *)
(***************************************************************************)
Left(self, raised, value) == [raised |-> raised, self |-> self, value |-> value]

set_budget_goals_unnormalized(self, expenses, wants, savings) ==
    Left([self EXCEPT !.budget_goals = Goals(expenses, wants, savings)], FALSE, <<>>)

set_budget_goals(self, expenses, wants, savings) ==
    LET total == FAdd(FAdd(expenses, wants), savings)
    IN  IF FGt(FAbs(FSub(total, One)), Tolerance)
        THEN IF total = Zero THEN Left(self, TRUE, <<>>)
             ELSE Left([self EXCEPT !.budget_goals =
                           Goals(FDiv(expenses, total), FDiv(wants, total),
                                 FDiv(savings, total))], FALSE, <<>>)
        ELSE Left([self EXCEPT !.budget_goals = Goals(expenses, wants, savings)],
                  FALSE, <<>>)

\* FinancialChatbot.set_income
set_income(self, income) == [self EXCEPT !.total_income = income]

\* FinancialChatbot.calculate_budget_allocations
calculate_budget_allocations(self) ==
    Goals(FMul(self.total_income, self.budget_goals.expenses),
          FMul(self.total_income, self.budget_goals.wants),
          FMul(self.total_income, self.budget_goals.savings))

(***************************************************************************)
(* pandas frames: a set of column names and a sequence of rows, each row a *)
(* function from the frame's columns to cell values.                        *)
(***************************************************************************)
Frame(columns, rows) == [columns |-> columns, rows |-> rows]

\* row.get(key, default) of a row Series: the cell when the frame has the column
RowGet(row, key, default) == IF key \in DOMAIN row THEN row[key] ELSE default

\* dict.get(key, default)
DictGet(d, key, default) == IF key \in DOMAIN d THEN d[key] ELSE default

\* d[key] = value
DictPut(d, key, value) ==
    [k \in DOMAIN d \cup {key} |-> IF k = key THEN value ELSE d[k]]

\* pd.concat([a, b], ignore_index=True): the union of the columns, NaN in the
\* cells of a column the row's own frame does not have
Reindex(row, columns) == [c \in columns |-> IF c \in DOMAIN row THEN row[c] ELSE NaN]

Concat(a, b) ==
    LET columns == a.columns \cup b.columns
    IN  Frame(columns,
              [i \in 1..(Len(a.rows) + Len(b.rows)) |->
                  IF i <= Len(a.rows) THEN Reindex(a.rows[i], columns)
                  ELSE Reindex(b.rows[i - Len(a.rows)], columns)])

\* pd.concat(all_dfs, ignore_index=True) if len(all_dfs) > 1 else all_dfs[0]
RECURSIVE ConcatAll(_)
ConcatAll(dfs) ==
    IF Len(dfs) = 1 THEN dfs[1]
    ELSE Concat(ConcatAll(SubSeq(dfs, 1, Len(dfs) - 1)), dfs[Len(dfs)])

\* pd.DataFrame(self.monthly_transactions), for a non-empty list of dicts
MonthlyColumns == {"amount", "category", "category_type"}
DataFrame(dicts) == Frame(MonthlyColumns, dicts)

(***************************************************************************)
(* The text the classification service returns, after json.loads:          *)
(*   "object"       a JSON object; a key it lacks is Absent                *)
(*   "unparseable"  json.loads raises                                      *)
(*   "nonobject"    valid JSON that is no object (a list, a string)        *)
(*   "raise"        call_groq_api itself raises                            *)
(***************************************************************************)
Absent == "<absent>"
Response(kind, category, category_type) ==
    [kind |-> kind, category |-> category, category_type |-> category_type]
JsonGet(v, default) == IF v = Absent THEN default ELSE v

\* FinancialChatbot.categorize_transactions: responses[i] answers row i
CategorizeFails(rows, responses) ==
    \E i \in 1..Len(rows) : responses[i].kind \in {"raise", "nonobject"}

categorize_transactions(transactions_df, responses) ==
    IF CategorizeFails(transactions_df.rows, responses) THEN Raised
    ELSE IF Len(transactions_df.rows) = 0 THEN Returned(transactions_df)
    ELSE Returned(Frame(
            transactions_df.columns \cup {"category", "category_type"},
            [i \in 1..Len(transactions_df.rows) |->
                LET row == transactions_df.rows[i]
                    r == responses[i]
                    cat == IF r.kind = "object"
                           THEN JsonGet(r.category, "Uncategorized")
                           ELSE "Uncategorized"
                    typ == IF r.kind = "object"
                           THEN JsonGet(r.category_type, "expenses")
                           ELSE "expenses"
                IN  [c \in DOMAIN row \cup {"category", "category_type"} |->
                        IF c = "category" THEN cat
                        ELSE IF c = "category_type" THEN typ
                        ELSE row[c]]]))

\* row.get('transaction_amount', row.get('amount', 0))
RowAmount(row) == RowGet(row, "transaction_amount", RowGet(row, "amount", Zero))

\* FinancialChatbot._calculate_income_from_transactions
RECURSIVE IncomeTotal(_)
IncomeTotal(rows) ==
    IF rows = <<>> THEN Zero
    ELSE LET row == rows[Len(rows)]
             rest == IncomeTotal(SubSeq(rows, 1, Len(rows) - 1))
         IN  IF RowGet(row, "category_type", Absent) = "income"
                  /\ FGt(RowAmount(row), Zero)
             THEN FAdd(rest, RowAmount(row))
             ELSE rest

calculate_income_from_transactions(self) ==
    [self EXCEPT !.income = IncomeTotal(self.transactions_df.rows)]

\* FinancialChatbot.__init__
FinancialChatbot(transactions_df, responses) ==
    LET c == categorize_transactions(transactions_df, responses)
    IN  IF c.raised THEN Raised
        ELSE Returned(
                [calculate_income_from_transactions(
                    [transactions_df |-> c.value,
                     income |-> Zero,
                     total_income |-> Zero,
                     budget_goals |-> DefaultGoals,
                     monthly_transactions |-> <<>>])
                 EXCEPT !.total_income = Zero])

(***************************************************************************)
(* FinancialChatbot.analyze_current_spending                               *)
(***************************************************************************)
\* sum(d.values())
RECURSIVE SumKeys(_, _)
SumKeys(d, keys) ==
    IF keys = {} THEN Zero
    ELSE LET k == CHOOSE x \in keys : TRUE
         IN  FAdd(d[k], SumKeys(d, keys \ {k}))

SumValues(d) == SumKeys(d, DOMAIN d)

KnownBuckets == {"expenses", "wants", "savings"}

\* the loop over all_transactions.iterrows()
RECURSIVE SpendingLoop(_)
SpendingLoop(rows) ==
    IF rows = <<>>
    THEN [spending |-> [b \in KnownBuckets |-> Zero], category_breakdown |-> <<>>]
    ELSE LET acc == SpendingLoop(SubSeq(rows, 1, Len(rows) - 1))
             row == rows[Len(rows)]
             category_type == RowGet(row, "category_type", "expenses")
             category == RowGet(row, "category", "Uncategorized")
             amount == FAbs(RowAmount(row))
         IN  IF category_type = "income" THEN acc
             ELSE [spending |->
                      DictPut(acc.spending, category_type,
                              FAdd(DictGet(acc.spending, category_type, Zero), amount)),
                   category_breakdown |->
                      DictPut(acc.category_breakdown, category,
                              FAdd(DictGet(acc.category_breakdown, category, Zero),
                                   amount))]

AllTransactions(self) ==
    IF self.monthly_transactions # <<>>
    THEN Concat(self.transactions_df, DataFrame(self.monthly_transactions))
    ELSE self.transactions_df

analyze_known_buckets_only(self) ==
    LET acc == SpendingLoop(AllTransactions(self).rows)
    IN  [spending |-> acc.spending,
         category_breakdown |-> acc.category_breakdown,
         total_spent |-> SumKeys(acc.spending, KnownBuckets)]

analyze_current_spending(self) ==
    LET acc == SpendingLoop(AllTransactions(self).rows)
    IN  [spending |-> acc.spending,
         category_breakdown |-> acc.category_breakdown,
         total_spent |-> SumValues(acc.spending)]

(***************************************************************************)
(* FinancialChatbot.get_summary                                            *)
(***************************************************************************)
summary_remaining_flipped(budget_, spending) ==
    Goals(FSub(budget_.expenses, spending.expenses),
          FSub(budget_.wants, spending.wants),
          FSub(budget_.savings, spending.savings))

\* lines 360-364
summary_remaining(budget_, spending) ==
    Goals(FSub(budget_.expenses, spending.expenses),
          FSub(budget_.wants, spending.wants),
          FSub(spending.savings, budget_.savings))

get_summary_spent_minus_income(self) ==
    LET budget_ == calculate_budget_allocations(self)
        current == analyze_current_spending(self)
    IN  [total_income |-> self.total_income,
         budget_allocations |-> budget_,
         current_spending |-> current.spending,
         remaining_budget |-> summary_remaining(budget_, current.spending),
         total_spent |-> current.total_spent,
         total_remaining |-> FSub(current.total_spent, self.total_income),
         category_breakdown |-> current.category_breakdown,
         transactions_count |->
             Len(self.transactions_df.rows) + Len(self.monthly_transactions)]

get_summary(self) ==
    LET budget_ == calculate_budget_allocations(self)
        current == analyze_current_spending(self)
    IN  [total_income |-> self.total_income,
         budget_allocations |-> budget_,
         current_spending |-> current.spending,
         remaining_budget |-> summary_remaining(budget_, current.spending),
         total_spent |-> current.total_spent,
         total_remaining |-> FSub(self.total_income, current.total_spent),
         category_breakdown |-> current.category_breakdown,
         transactions_count |->
             Len(self.transactions_df.rows) + Len(self.monthly_transactions)]

(***************************************************************************)
(* FinancialChatbot.add_transaction and what it calls                      *)
(***************************************************************************)
\* _classify_transaction: the call is outside the try, the parse inside it
classify_transaction(response) ==
    IF response.kind = "raise" THEN Raised
    ELSE IF response.kind = "unparseable"
    THEN Returned(Response("object", "Uncategorized", "expenses"))
    ELSE Returned(response)

\* _get_updated_analysis, lines 299-303
analysis_remaining(budget_, spending) ==
    Goals(FSub(budget_.expenses, spending.expenses),
          FSub(budget_.wants, spending.wants),
          FSub(spending.savings, budget_.savings))

\* _get_updated_analysis: the figures it puts in the prompt; advice_ok is
\* whether the call_groq_api that follows returns
get_updated_analysis(self, advice_ok) ==
    LET budget_ == calculate_budget_allocations(self)
        current == analyze_current_spending(self)
        remaining == analysis_remaining(budget_, current.spending)
    IN  Left(self, ~advice_ok, remaining)

\* `not x` for an optional text argument
Missing(x) == x = Absent \/ x = ""

Transaction(amount, category, category_type) ==
    [amount |-> amount, category |-> category, category_type |-> category_type]

add_transaction(self, amount, category, category_type, response, advice_ok) ==
    LET classify == Missing(category) \/ Missing(category_type)
        c == classify_transaction(response)
    IN  IF classify /\ c.raised THEN Left(self, TRUE, <<>>)
        ELSE IF classify /\ c.value.kind = "nonobject" THEN Left(self, TRUE, <<>>)
        ELSE LET cat == IF Missing(category)
                        THEN JsonGet(c.value.category, "Uncategorized")
                        ELSE category
                 typ == IF Missing(category_type)
                        THEN JsonGet(c.value.category_type, "expenses")
                        ELSE category_type
                 appended == [self EXCEPT !.monthly_transactions =
                                 Append(@, Transaction(amount, cat, typ))]
             IN  get_updated_analysis(appended, advice_ok)

(***************************************************************************)
(* Inputs.                                                                 *)
(***************************************************************************)
\* the frames load_transactions_from_file returns; the ledger reads only the
\* transaction_amount column of them
NormalizedColumns == {"transaction_amount"}
\* the frame of example_usage, which names the column amount
SampleColumns == {"amount"}
RawAmounts == {Num(-40), Num(600)}

RowSeqs(columns, n) ==
    UNION {[1..k -> {[c \in columns |-> a] : a \in RawAmounts}] : k \in 0..n}
Files == {Frame(NormalizedColumns, rows) : rows \in RowSeqs(NormalizedColumns, MaxRows)}
SampleFrames == {Frame(SampleColumns, rows) : rows \in RowSeqs(SampleColumns, MaxRows)}

Responses ==
    { Response("object", "Salary", "income"),
      Response("object", "Investment", "savings"),
      Response("object", Absent, "saving"),
      Response("unparseable", Absent, Absent),
      Response("nonobject", Absent, Absent),
      Response("raise", Absent, Absent) }

\* goal triples sent by a client
GoalTriples ==
    { <<Num(70), Num(20), Num(10)>>,
      <<Num(-10), Num(60), Num(50)>>,
      <<Zero, Zero, Zero>> }

Incomes == {Num(5000)}
ManualAmounts == {Num(600)}
ManualCategories == {Absent, "Gift"}
ManualTypes == {Absent, "wants"}

NoGoalInput == [base |-> <<Zero, Zero, Zero>>, scale |-> 1]
NoRequest == <<>>

HasLedger == chatbot # <<>>
Ledger == chatbot[1]

(***************************************************************************)
(* app.py: the routes, for one session id.                                 *)
(***************************************************************************)
Init ==
    /\ in_sessions = FALSE
    /\ dataframes = <<>>
    /\ budget = <<>>
    /\ chatbot = <<>>
    /\ resp = 0
    /\ goal_input = NoGoalInput
    /\ request = NoRequest
    /\ result = <<>>
    /\ chatbot_sessions = <<>>
    /\ uploads = <<>>
    /\ threads = <<>>

\* POST /api/set-budget with the three values given
SetBudget ==
    \E t \in GoalTriples :
        LET p == parse_budget_input(t[1], t[2], t[3])
        IN  /\ in_sessions' = TRUE
            /\ budget' = IF p.raised THEN budget ELSE <<p.value>>
            /\ resp' = IF p.raised THEN 500 ELSE 200
            /\ UNCHANGED <<dataframes, chatbot, goal_input, request, result,
                           chatbot_sessions, uploads, threads>>

\* POST /api/set-budget with a value left out
SetBudgetDefault ==
    /\ in_sessions' = TRUE
    /\ budget' = <<DefaultGoals>>
    /\ resp' = 200
    /\ UNCHANGED <<dataframes, chatbot, goal_input, request, result, chatbot_sessions,
                   uploads, threads>>

\* POST /api/upload refused before the file is read (no file, no name, bad
\* extension: 400), or load_transactions_from_file raises (500)
UploadRefused ==
    /\ resp' \in {400, 500}
    /\ UNCHANGED <<in_sessions, dataframes, budget, chatbot, goal_input, request, result,
                   chatbot_sessions, uploads, threads>>

\* POST /api/upload, the file read into df
UploadFile ==
    /\ Len(dataframes) < MaxFiles
    /\ \E df \in Files :
        LET dfs == Append(dataframes, df)
            combined_df == ConcatAll(dfs)
        IN  \E responses \in [1..Len(combined_df.rows) -> Responses] :
            LET made == FinancialChatbot(combined_df, responses)
                goals == IF budget # <<>> THEN budget[1] ELSE DefaultGoals
            IN  /\ in_sessions' = TRUE
                /\ dataframes' = dfs
                /\ UNCHANGED <<budget, goal_input, request, result, chatbot_sessions,
                               uploads, threads>>
                /\ IF made.raised
                   THEN /\ chatbot' = chatbot
                        /\ resp' = 500
                   ELSE LET set == set_budget_goals(made.value, goals.expenses,
                                                    goals.wants, goals.savings)
                        IN  /\ chatbot' = <<set.self>>
                            \* NaT.strftime raises for a file without rows
                            /\ resp' = IF set.raised \/ Len(df.rows) = 0
                                       THEN 500 ELSE 200

\* POST /api/set-income
SetIncome ==
    /\ HasLedger
    /\ \E income \in Incomes : chatbot' = <<set_income(Ledger, income)>>
    /\ resp' = 200
    /\ UNCHANGED <<in_sessions, dataframes, budget, goal_input, request, result,
                   chatbot_sessions, uploads, threads>>

\* POST /api/add-transaction
AddTransaction ==
    /\ HasLedger
    /\ Len(Ledger.monthly_transactions) < MaxMonthly
    /\ \E amount \in ManualAmounts, category \in ManualCategories,
          category_type \in ManualTypes, response \in Responses,
          advice_ok \in BOOLEAN :
        LET r == add_transaction(Ledger, amount, category, category_type,
                                 response, advice_ok)
        IN  /\ chatbot' = <<r.self>>
            /\ resp' = IF r.raised THEN 500 ELSE 200
    /\ UNCHANGED <<in_sessions, dataframes, budget, goal_input, request, result,
                   chatbot_sessions, uploads, threads>>

\* GET /api/summary
Summary ==
    /\ HasLedger
    /\ resp' = 200
    /\ UNCHANGED <<in_sessions, dataframes, budget, chatbot, goal_input, request, result,
                   chatbot_sessions, uploads, threads>>

\* POST /api/chat and GET /api/initial-analysis: they read the ledger and add
\* to its conversation_history, which is not part of this model; 500 when
\* call_groq_api raises
Chat ==
    /\ HasLedger
    /\ resp' \in {200, 500}
    /\ UNCHANGED <<in_sessions, dataframes, budget, chatbot, goal_input, request, result,
                   chatbot_sessions, uploads, threads>>

\* set-income, add-transaction, summary, chat, initial-analysis before any
\* successful upload
NoLedger ==
    /\ ~HasLedger
    /\ resp' = 400
    /\ UNCHANGED <<in_sessions, dataframes, budget, chatbot, goal_input, request, result,
                   chatbot_sessions, uploads, threads>>

Next ==
    \/ SetBudget
    \/ SetBudgetDefault
    \/ UploadRefused
    \/ UploadFile
    \/ SetIncome
    \/ AddTransaction
    \/ Summary
    \/ Chat
    \/ NoLedger

Spec == Init /\ [][Next]_vars

(***************************************************************************)
(* The ledger used as a library (example_usage and the module's __main__): *)
(* built once from a frame, then driven through its methods.               *)
(***************************************************************************)
InitLedger == Init

LedgerConstruct ==
    /\ ~HasLedger
    /\ \E df \in Files \cup SampleFrames :
        \E responses \in [1..Len(df.rows) -> Responses] :
            LET made == FinancialChatbot(df, responses)
            IN  chatbot' = IF made.raised THEN chatbot ELSE <<made.value>>
    /\ UNCHANGED <<in_sessions, dataframes, budget, resp, goal_input, request, result,
                   chatbot_sessions, uploads, threads>>

LedgerSetIncome ==
    /\ HasLedger
    /\ \E income \in Incomes : chatbot' = <<set_income(Ledger, income)>>
    /\ UNCHANGED <<in_sessions, dataframes, budget, resp, goal_input, request, result,
                   chatbot_sessions, uploads, threads>>

LedgerSetBudgetGoals ==
    /\ HasLedger
    /\ \E t \in GoalTriples :
        chatbot' = <<set_budget_goals(Ledger, t[1], t[2], t[3]).self>>
    /\ UNCHANGED <<in_sessions, dataframes, budget, resp, goal_input, request, result,
                   chatbot_sessions, uploads, threads>>

LedgerAddTransaction ==
    /\ HasLedger
    /\ Len(Ledger.monthly_transactions) < MaxMonthly
    /\ \E amount \in ManualAmounts, category \in ManualCategories,
          category_type \in ManualTypes, response \in Responses,
          advice_ok \in BOOLEAN :
        chatbot' = <<add_transaction(Ledger, amount, category, category_type,
                                     response, advice_ok).self>>
    /\ UNCHANGED <<in_sessions, dataframes, budget, resp, goal_input, request, result,
                   chatbot_sessions, uploads, threads>>

NextLedger ==
    \/ LedgerConstruct
    \/ LedgerSetIncome
    \/ LedgerSetBudgetGoals
    \/ LedgerAddTransaction

SpecLedger == InitLedger /\ [][NextLedger]_vars

(***************************************************************************)
(* Goal updates alone: a caller holds a triple and sends it as fractions   *)
(* (scale 1) or as percentages (scale 100), to parse_budget_input (whose   *)
(* result /api/set-budget stores in the session) and to set_budget_goals   *)
(* of a ledger.                                                            *)
(***************************************************************************)
GoalValues == {Pct(-50), Zero, Pct(10), Pct(20), Pct(70), One}
GoalScales == {1, 100}

Sent(i) == FMul(Num(goal_input.scale), goal_input.base[i])

InitGoals ==
    /\ in_sessions = TRUE
    /\ dataframes = <<>>
    /\ budget = <<>>
    /\ chatbot = <<FinancialChatbot(Frame(SampleColumns, <<>>), <<>>).value>>
    /\ resp = 0
    /\ goal_input \in [base : GoalValues \X GoalValues \X GoalValues, scale : GoalScales]
    /\ request = NoRequest
    /\ result = <<>>
    /\ chatbot_sessions = <<>>
    /\ uploads = <<>>
    /\ threads = <<>>

GoalsParse ==
    LET p == parse_budget_input(Sent(1), Sent(2), Sent(3))
    IN  /\ budget' = IF p.raised THEN budget ELSE <<p.value>>
        /\ resp' = IF p.raised THEN 500 ELSE 200
        /\ UNCHANGED <<in_sessions, dataframes, chatbot, goal_input, request, result,
                       chatbot_sessions, uploads, threads>>

GoalsSet ==
    /\ chatbot' = <<set_budget_goals(Ledger, Sent(1), Sent(2), Sent(3)).self>>
    /\ UNCHANGED <<in_sessions, dataframes, budget, resp, goal_input, request, result,
                   chatbot_sessions, uploads, threads>>

NextGoals == GoalsParse \/ GoalsSet

SpecGoals == InitGoals /\ [][NextGoals]_vars

(***************************************************************************)
(* Properties.                                                             *)
(***************************************************************************)
Near1(g) == ~FGt(FAbs(FSub(GoalSum(g), One)), Tolerance)
NonNegative(g) ==
    ~FGt(Zero, g.expenses) /\ ~FGt(Zero, g.wants) /\ ~FGt(Zero, g.savings)
InputGoals == Goals(goal_input.base[1], goal_input.base[2], goal_input.base[3])
SentSum == FAdd(FAdd(Sent(1), Sent(2)), Sent(3))
Spending(self) == analyze_current_spending(self).spending
Last(seq) == seq[Len(seq)]
IsPrefix(a, b) == Len(a) <= Len(b) /\ SubSeq(b, 1, Len(a)) = a

\* C1: after any goal update, through parse_budget_input or through
\* set_budget_goals, the stored expenses + wants + savings is within 0.01 of 1,
\* whatever the scale of the three numbers sent.
C1_GoalsSumToOne ==
    /\ budget # <<>> => Near1(budget[1])
    /\ HasLedger => Near1(Ledger.budget_goals)

\* a triple whose sum is far from 1 was sent and stored on both paths
C1_Witness ==
    /\ FGt(FAbs(FSub(SentSum, One)), Tolerance)
    /\ FGt(FAbs(FSub(SentSum, Num(100))), One)
    /\ budget # <<>>
    /\ Ledger.budget_goals = budget[1]
    /\ Ledger.budget_goals # DefaultGoals

\* C2: a triple of fractions summing to 1 is stored as those three fractions
\* whether it is sent as fractions or as the equivalent percentages, so both
\* ways of sending it store identical goals.
C2_SameGoalsEitherScale ==
    GoalSum(InputGoals) = One =>
        /\ budget # <<>> => budget[1] = InputGoals
        /\ Ledger.budget_goals \in {DefaultGoals, InputGoals}

\* percentages were sent and the fractions are what both paths stored
C2_Witness ==
    /\ goal_input.scale = 100
    /\ GoalSum(InputGoals) = One
    /\ InputGoals # DefaultGoals
    /\ budget = <<InputGoals>>
    /\ Ledger.budget_goals = InputGoals

\* C3: in every reachable ledger state each of the three stored goal
\* fractions is non-negative.
C3_GoalsNonNegative == HasLedger => NonNegative(Ledger.budget_goals)

\* C4: summary() and the analysis after an added transaction both compute
\* remaining.expenses and remaining.wants as allocation minus spending and
\* remaining.savings as spending minus allocation, and agree on one state;
\* savings spending 600 against an allocation of 500 gives +100.
C4_RemainingBudget ==
    HasLedger =>
        LET a == calculate_budget_allocations(Ledger)
            sp == Spending(Ledger)
            s == get_summary(Ledger)
        IN  /\ s.remaining_budget.expenses = FSub(a.expenses, sp.expenses)
            /\ s.remaining_budget.wants = FSub(a.wants, sp.wants)
            /\ s.remaining_budget.savings = FSub(sp.savings, a.savings)
            /\ (sp.savings = Num(600) /\ a.savings = Num(500))
                   => s.remaining_budget.savings = Num(100)
            /\ Ledger.monthly_transactions # <<>>
                   => get_updated_analysis(Ledger, TRUE).value = s.remaining_budget

\* a transaction was added, savings spending is 600 against an allocation of 500
C4_Witness ==
    /\ HasLedger
    /\ Ledger.monthly_transactions # <<>>
    /\ Spending(Ledger).savings = Num(600)
    /\ calculate_budget_allocations(Ledger).savings = Num(500)
    /\ get_summary(Ledger).remaining_budget.savings = Num(100)

\* abs(amount) of the rows that are not income, each amount as
\* analyze_current_spending reads it
RECURSIVE NonIncomeTotal(_)
NonIncomeTotal(rows) ==
    IF rows = <<>> THEN Zero
    ELSE FAdd(NonIncomeTotal(SubSeq(rows, 1, Len(rows) - 1)),
              IF Last(rows)["category_type"] = "income" THEN Zero
              ELSE FAbs(RowAmount(Last(rows))))

UnknownRows(rows) ==
    {i \in 1..Len(rows) : rows[i]["category_type"] \notin KnownBuckets \cup {"income"}}

C6_ManualAddCounted ==
    [][(/\ HasLedger /\ HasLedger'
        /\ Ledger.transactions_df.rows # <<>>
        /\ Ledger'.transactions_df = Ledger.transactions_df
        /\ Len(Ledger'.monthly_transactions) = Len(Ledger.monthly_transactions) + 1
        /\ Last(Ledger'.monthly_transactions).category_type # "income")
       => LET tx == Last(Ledger'.monthly_transactions)
              before == Spending(Ledger)
          IN  Spending(Ledger') =
                  DictPut(before, tx.category_type,
                          FAdd(DictGet(before, tx.category_type, Zero),
                               FAbs(tx.amount)))]_vars

\* C7: transactions_count never decreases and a manually added transaction
\* stays in the ledger, whatever request comes next.
C7_AppendOnly ==
    [][(HasLedger /\ HasLedger')
       => /\ get_summary(Ledger').transactions_count
                 >= get_summary(Ledger).transactions_count
          /\ IsPrefix(Ledger.monthly_transactions, Ledger'.monthly_transactions)]_vars

\* C8: a file upload in a session that has a ledger leaves total_income as
\* set_income left it.
C8_UploadKeepsIncome ==
    [][(HasLedger /\ dataframes' # dataframes)
       => Ledger'.total_income = Ledger.total_income]_vars

\* C9: after /api/set-budget stored new goals for a session that has a
\* ledger, the ledger's goals are those goals.
C9_SetBudgetReachesLedger ==
    [][(HasLedger /\ budget' # budget) => Ledger'.budget_goals = budget'[1]]_vars

\* the positive amounts of the income transactions of a ledger, bulk-loaded
\* and manually added
RECURSIVE PositiveIncome(_)
PositiveIncome(entries) ==
    IF entries = <<>> THEN Zero
    ELSE FAdd(PositiveIncome(SubSeq(entries, 1, Len(entries) - 1)),
              IF Last(entries).category_type = "income"
                   /\ FGt(Last(entries).amount, Zero)
              THEN Last(entries).amount ELSE Zero)

Entries(self) ==
    [i \in 1..Len(self.transactions_df.rows) |->
        [category_type |-> self.transactions_df.rows[i]["category_type"],
         amount |-> RowAmount(self.transactions_df.rows[i])]]
    \o [i \in 1..Len(self.monthly_transactions) |->
        [category_type |-> self.monthly_transactions[i].category_type,
         amount |-> self.monthly_transactions[i].amount]]

\* C10: the derived income is the sum of the positive amounts of all income
\* transactions of the ledger, bulk-loaded and manually added.
C10_IncomeIsDerived == HasLedger => Ledger.income = PositiveIncome(Entries(Ledger))

\* C11: the Categorizer never errors to its caller: whatever the service does
\* (the call failing, an unparseable or a non-object answer) each transaction
\* gets a label, the fallback {Uncategorized, expenses} if need be; so an
\* upload that stored its file leaves a ledger holding every stored row with
\* its two labels, and answers without a server error for a file with rows.
C11_CategorizerTotal ==
    [][(dataframes' # dataframes /\ Last(dataframes').rows # <<>>)
       => /\ HasLedger'
          /\ Len(Ledger'.transactions_df.rows) = Len(ConcatAll(dataframes').rows)
          /\ \A i \in 1..Len(Ledger'.transactions_df.rows) :
                {"category", "category_type"}
                    \subseteq DOMAIN Ledger'.transactions_df.rows[i]
          /\ resp' = 200]_vars

CategoryTypes == {"income", "expenses", "wants", "savings"}

\* C12: every transaction the ledger stores, bulk-loaded or manually added,
\* has a category_type among income, expenses, wants and savings, whatever
\* text the classification service returned.
C12_CategoryTypeInSet ==
    HasLedger =>
        \A i \in 1..Len(Entries(Ledger)) :
            Entries(Ledger)[i].category_type \in CategoryTypes

\* C13: a transaction is categorized once, when it enters the ledger; no
\* later operation, a further upload included, calls the Categorizer for it
\* again or changes its category or category_type.
C13_CategorizedOnce ==
    [][(HasLedger /\ HasLedger')
       => LET before == Ledger.transactions_df.rows
              after == Ledger'.transactions_df.rows
          IN  \A i \in 1..Len(before) :
                /\ i <= Len(after)
                /\ after[i]["category"] = before[i]["category"]
                /\ after[i]["category_type"] = before[i]["category_type"]]_vars

(***************************************************************************)
(* add_transaction alone: a caller holds the arguments of one call, the    *)
(* classification service holds its answer, and the call is made on a      *)
(* ledger built from a normalized file.                                    *)
(***************************************************************************)
AddRequests ==
    [amount : ManualAmounts, category : ManualCategories \cup {""},
     category_type : ManualTypes, response : Responses, advice_ok : BOOLEAN]

\* the ledgers FinancialChatbot(df) returns
Ledgers ==
    {FinancialChatbot(df, responses).value :
        <<df, responses>> \in
            {p \in UNION {{df} \X [1..Len(df.rows) -> Responses] : df \in Files} :
                ~FinancialChatbot(p[1], p[2]).raised}}

InitAdd ==
    /\ in_sessions = FALSE
    /\ dataframes = <<>>
    /\ budget = <<>>
    /\ chatbot \in {<<self>> : self \in Ledgers}
    /\ resp = 0
    /\ goal_input = NoGoalInput
    /\ request \in AddRequests
    /\ result = <<>>
    /\ chatbot_sessions = <<>>
    /\ uploads = <<>>
    /\ threads = <<>>

AddCall ==
    /\ Len(result) < MaxCalls
    /\ Len(Ledger.monthly_transactions) < MaxMonthly
    /\ LET r == add_transaction(Ledger, request.amount, request.category,
                                request.category_type, request.response,
                                request.advice_ok)
       IN  /\ chatbot' = <<r.self>>
           /\ result' = Append(result, [raised |-> r.raised])
    /\ UNCHANGED <<in_sessions, dataframes, budget, resp, goal_input, request,
                   chatbot_sessions, uploads, threads>>

NextAdd == AddCall

SpecAdd == InitAdd /\ [][NextAdd]_vars

\* the label the Categorizer gives for a service answer, per key
CategorizerLabel(response, key, default) ==
    IF response.kind = "object" THEN JsonGet(response[key], default) ELSE default

\* C14: add_transaction appends exactly one transaction to the ledger; a
\* label the caller supplied is stored unchanged and only a missing label
\* comes from the Categorizer, which is asked if and only if the category or
\* the category_type is missing (so with both supplied the service's answer
\* has no effect).
C14_AddAppendsOne ==
    [][result' # result
       => LET before == Ledger.monthly_transactions
              after == Ledger'.monthly_transactions
              tx == Last(after)
          IN  /\ Len(after) = Len(before) + 1
              /\ IsPrefix(before, after)
              /\ tx.amount = request.amount
              /\ tx.category =
                    IF Missing(request.category)
                    THEN CategorizerLabel(request.response, "category", "Uncategorized")
                    ELSE request.category
              /\ tx.category_type =
                    IF Missing(request.category_type)
                    THEN CategorizerLabel(request.response, "category_type", "expenses")
                    ELSE request.category_type
              /\ (~Missing(request.category) /\ ~Missing(request.category_type))
                    => \A response \in Responses :
                          add_transaction(Ledger, request.amount, request.category,
                                          request.category_type, response,
                                          request.advice_ok).self = Ledger']_vars

\* the transactions of the session's ledger, bulk-loaded and manually added
LedgerTransactions ==
    IF HasLedger
    THEN <<Ledger.transactions_df.rows, Ledger.monthly_transactions>>
    ELSE <<>>

\* C15: a failed ingestion contributes nothing: when an upload answers an
\* error (refused file, no date column, categorization failure, failure
\* while building the response) the session's stored file tables and its
\* ledger's transactions are what they were before that upload.
C15_FailedUploadContributesNothing ==
    [][((UploadFile \/ UploadRefused) /\ resp' # 200)
       => /\ dataframes' = dataframes
          /\ LedgerTransactions' = LedgerTransactions]_vars

\* C16: the queries of a ledger with zero transactions succeed with zero
\* values: summary() has total_spent = 0, every spending bucket = 0,
\* category_breakdown = {} and transactions_count = 0, and total_remaining
\* is total_income, so 0 when total_income = 0.
C16_EmptyLedgerSummary ==
    (HasLedger /\ Entries(Ledger) = <<>>) =>
        LET s == get_summary(Ledger)
        IN  /\ s.total_spent = Zero
            /\ s.current_spending = [b \in KnownBuckets |-> Zero]
            /\ s.category_breakdown = <<>>
            /\ s.transactions_count = 0
            /\ s.total_remaining = Ledger.total_income
            /\ Ledger.total_income = Zero => s.total_remaining = Zero

\* a ledger without transactions whose income and goals have been set
C16_Witness ==
    /\ HasLedger
    /\ Entries(Ledger) = <<>>
    /\ Ledger.total_income = Num(5000)
    /\ Ledger.budget_goals # DefaultGoals
    /\ get_summary(Ledger).total_remaining = Num(5000)
    /\ get_summary(Ledger).remaining_budget.savings # Zero

(***************************************************************************)
(* pdfconverter.py: text.  A Python str is a TLA+ string; Char(s, i) is    *)
(* s[i-1].  The headers and cells of the files considered are ASCII.       *)
(***************************************************************************)
Char(s, i) == SubSeq(s, i, i)

Digits == "0123456789"
LowerCase == "abcdefghijklmnopqrstuvwxyz"
UpperCase == "ABCDEFGHIJKLMNOPQRSTUVWXYZ"

\* the 1-based position of the character ch in alphabet, 0 if it is not there
IndexIn(alphabet, ch) ==
    IF \E i \in 1..Len(alphabet) : Char(alphabet, i) = ch
    THEN CHOOSE i \in 1..Len(alphabet) : Char(alphabet, i) = ch
    ELSE 0

\* the regular expression classes \s, \w and \d
IsSpace(ch) == ch \in {" ", "\t", "\n", "\r"}
IsDigit(ch) == IndexIn(Digits, ch) > 0
IsWord(ch) ==
    \/ IndexIn(LowerCase, ch) > 0
    \/ IndexIn(UpperCase, ch) > 0
    \/ IsDigit(ch)
    \/ ch = "_"

\* str.lower, one character
LowerChar(ch) ==
    IF IndexIn(UpperCase, ch) > 0
    THEN Char(LowerCase, IndexIn(UpperCase, ch))
    ELSE ch

\* str.lower
RECURSIVE lower(_)
lower(s) ==
    IF s = "" THEN ""
    ELSE lower(SubSeq(s, 1, Len(s) - 1)) \o LowerChar(Char(s, Len(s)))

\* str.strip
RECURSIVE strip(_)
strip(s) ==
    IF s = "" THEN ""
    ELSE IF IsSpace(Char(s, 1)) THEN strip(SubSeq(s, 2, Len(s)))
    ELSE IF IsSpace(Char(s, Len(s))) THEN strip(SubSeq(s, 1, Len(s) - 1))
    ELSE s

\* re.sub(r'[^\w\s]', '', s)
RECURSIVE KeepWordAndSpace(_)
KeepWordAndSpace(s) ==
    IF s = "" THEN ""
    ELSE LET ch == Char(s, Len(s))
         IN  KeepWordAndSpace(SubSeq(s, 1, Len(s) - 1))
                \o (IF IsWord(ch) \/ IsSpace(ch) THEN ch ELSE "")

\* re.sub(r'\s+', '_', s)
RECURSIVE SpaceRunsToUnderscore(_)
SpaceRunsToUnderscore(s) ==
    IF s = "" THEN ""
    ELSE LET ch == Char(s, Len(s))
             rest == SubSeq(s, 1, Len(s) - 1)
         IN  IF ~IsSpace(ch) THEN SpaceRunsToUnderscore(rest) \o ch
             ELSE IF rest # "" /\ IsSpace(Char(rest, Len(rest)))
             THEN SpaceRunsToUnderscore(rest)
             ELSE SpaceRunsToUnderscore(rest) \o "_"

\* _norm
norm(s) == SpaceRunsToUnderscore(KeepWordAndSpace(lower(strip(s))))

\* `n in c` for two strings
Contains(c, n) ==
    \E i \in 1..(Len(c) - Len(n) + 1) : SubSeq(c, i, i + Len(n) - 1) = n

\* str.endswith
EndsWith(s, suffix) ==
    Len(s) >= Len(suffix) /\ SubSeq(s, Len(s) - Len(suffix) + 1, Len(s)) = suffix
(***************************************************************************)
(* pdfconverter.py: cells.  A cell is a str, or NA for the null pandas     *)
(* puts where the file has nothing (NaN, None).                            *)
(***************************************************************************)
NA == "<NA>"

\* Series.astype(str), one cell
astype_str(cell) == IF cell = NA THEN "nan" ELSE cell

\* Series.str.replace of every character of the set chars by ''
RECURSIVE Remove(_, _)
Remove(s, chars) ==
    IF s = "" THEN ""
    ELSE LET ch == Char(s, Len(s))
         IN  Remove(SubSeq(s, 1, Len(s) - 1), chars)
                \o (IF ch \in chars THEN "" ELSE ch)

AllDigits(s) == \A i \in 1..Len(s) : IsDigit(Char(s, i))

\* the value of a string of decimal digits ('' is 0)
RECURSIVE DigitsValue(_)
DigitsValue(s) ==
    IF s = "" THEN 0
    ELSE 10 * DigitsValue(SubSeq(s, 1, Len(s) - 1))
            + (IndexIn(Digits, Char(s, Len(s))) - 1)

RECURSIVE Pow10(_)
Pow10(k) == IF k = 0 THEN 1 ELSE 10 * Pow10(k - 1)

FNeg(x) == <<-x[1], x[2]>>

\* pd.to_numeric(errors='coerce') of a text without sign: digits with at
\* most one decimal point; anything else is coerced to NaN
UnsignedNumber(s) ==
    LET dots == {i \in 1..Len(s) : Char(s, i) = "."}
    IN  IF dots = {}
        THEN IF s # "" /\ AllDigits(s) THEN Num(DigitsValue(s)) ELSE NaN
        ELSE IF Cardinality(dots) > 1 THEN NaN
        ELSE LET p == CHOOSE i \in dots : TRUE
                 whole == SubSeq(s, 1, p - 1)
                 frac == SubSeq(s, p + 1, Len(s))
             IN  IF AllDigits(whole) /\ AllDigits(frac) /\ Len(s) > 1
                 THEN Float(DigitsValue(whole) * Pow10(Len(frac)) + DigitsValue(frac),
                            Pow10(Len(frac)))
                 ELSE NaN

\* pd.to_numeric(errors='coerce'), one cell of text: '' and 'nan' are NaN.
\* The cells of the files considered use no exponent, no 'inf' and no
\* digit-group underscore.
to_numeric(s) ==
    IF s = "" THEN NaN
    ELSE IF Char(s, 1) = "-" THEN FNeg(UnsignedNumber(SubSeq(s, 2, Len(s))))
    ELSE IF Char(s, 1) = "+" THEN UnsignedNumber(SubSeq(s, 2, Len(s)))
    ELSE UnsignedNumber(s)

\* _parse_money without line 19
parse_money_unsigned(cell) ==
    LET s == strip(astype_str(cell))
    IN  to_numeric(Remove(Remove(Remove(s, {"$", ","}), {"(", ")"}), {" "}))

\* _parse_money, one cell of the series
parse_money(cell) ==
    LET s == strip(astype_str(cell))
        \* s.str.contains(r'^\(.*\)$')
        neg == /\ Len(s) >= 2
               /\ Char(s, 1) = "("
               /\ Char(s, Len(s)) = ")"
               /\ \A i \in 1..Len(s) : Char(s, i) # "\n"
        out == to_numeric(Remove(Remove(Remove(s, {"$", ","}), {"(", ")"}), {" "}))
    IN  IF neg THEN FNeg(out) ELSE out

\* _parse_money(series); is_none says that the argument is None
parse_money_series(is_none, series) ==
    IF is_none THEN <<>>
    ELSE [i \in 1..Len(series) |-> parse_money(series[i])]

(***************************************************************************)
(* pd.to_datetime(errors='coerce'), one cell.  A date is <<year, month,    *)
(* day>>; NaT is what a null or unparseable cell becomes.  The date cells  *)
(* of the files considered are written YYYY-MM-DD or are no date at all.   *)
(***************************************************************************)
NaT == <<0, 0, 0>>

DaysIn(year, month) ==
    IF month = 2
    THEN IF year % 4 = 0 /\ (year % 100 # 0 \/ year % 400 = 0) THEN 29 ELSE 28
    ELSE IF month \in {4, 6, 9, 11} THEN 30 ELSE 31

to_datetime(cell) ==
    IF cell = NA \/ Len(cell) # 10 THEN NaT
    ELSE LET y == SubSeq(cell, 1, 4)
             m == SubSeq(cell, 6, 7)
             d == SubSeq(cell, 9, 10)
         IN  IF /\ Char(cell, 5) = "-" /\ Char(cell, 8) = "-"
                /\ AllDigits(y) /\ AllDigits(m) /\ AllDigits(d)
                /\ DigitsValue(y) >= 1
                /\ DigitsValue(m) \in 1..12
                /\ DigitsValue(d) \in 1..DaysIn(DigitsValue(y), DigitsValue(m))
             THEN <<DigitsValue(y), DigitsValue(m), DigitsValue(d)>>
             ELSE NaT
(***************************************************************************)
(* pdfconverter.py: tables.  The table t read from a file has its headers  *)
(* in file order, which may repeat, and rows of cells by position.         *)
(***************************************************************************)
Table(headers, rows) == [headers |-> headers, rows |-> rows]

\* the elements of a set of integers in increasing order
Sorted(S) ==
    [i \in 1..Cardinality(S) |->
        CHOOSE x \in S : Cardinality({y \in S : y < x}) = i - 1]

\* the columns at the positions keep, in that order
SelectColumns(t, keep) ==
    Table([i \in 1..Len(keep) |-> t.headers[keep[i]]],
          [r \in 1..Len(t.rows) |-> [i \in 1..Len(keep) |-> t.rows[r][keep[i]]]])

\* lines 43-62: the reader chosen by the extension of the path
FileType(path) ==
    LET p == lower(path)
    IN  IF EndsWith(p, ".csv") THEN "csv"
        ELSE IF EndsWith(p, ".xls") \/ EndsWith(p, ".xlsx") THEN "excel"
        ELSE IF EndsWith(p, ".pdf") THEN "pdf"
        ELSE "unsupported"

\* lines 51-60 for a document of one page whose extracted table is `table`:
\* each row becomes dict(zip(headers, r)), where a repeated normalized header
\* keeps its first position and its last cell, and pd.DataFrame(rows) has no
\* columns when there is no row
PdfFrame(table) ==
    IF table.rows = <<>> THEN Table(<<>>, <<>>)
    ELSE LET headers == [j \in 1..Len(table.headers) |-> norm(table.headers[j])]
             first == Sorted({j \in 1..Len(headers) :
                                \A k \in 1..(j - 1) : headers[k] # headers[j]})
             last(j) == CHOOSE k \in j..Len(headers) :
                            /\ headers[k] = headers[j]
                            /\ \A l \in (k + 1)..Len(headers) : headers[l] # headers[j]
         IN  Table([i \in 1..Len(first) |-> headers[first[i]]],
                   [r \in 1..Len(table.rows) |->
                       [i \in 1..Len(first) |-> table.rows[r][last(first[i])]]])

\* t.dropna(axis=1, how="all"): a column stays when some row has a cell in it
dropna_columns(t) ==
    SelectColumns(t, Sorted({j \in 1..Len(t.headers) :
                                \E r \in 1..Len(t.rows) : t.rows[r][j] # NA}))

\* t.columns = [_norm(c) for c in t.columns]
NormalizeHeaders(t) ==
    Table([j \in 1..Len(t.headers) |-> norm(t.headers[j])], t.rows)

None == "<None>"

\* _first_match with its two loops exchanged: the headers outside
RECURSIVE first_match_by_header(_, _)
first_match_by_header(cols, needles) ==
    IF cols = <<>> THEN None
    ELSE IF \E k \in 1..Len(needles) : Contains(Head(cols), needles[k])
    THEN Head(cols)
    ELSE first_match_by_header(Tail(cols), needles)

\* _first_match(cols, *needles)
RECURSIVE first_match(_, _)
first_match(cols, needles) ==
    IF needles = <<>> THEN None
    ELSE LET hits == {j \in 1..Len(cols) : Contains(cols[j], Head(needles))}
         IN  IF hits # {}
             THEN cols[CHOOSE j \in hits : \A k \in hits : j <= k]
             ELSE first_match(cols, Tail(needles))

\* lines 71-76
Needles ==
    [date |-> <<"date">>,
     description |-> <<"description", "desc">>,
     ref |-> <<"ref">>,
     withdrawals |-> <<"withdrawls", "withdrawals", "withdrawl", "withdraw", "debit">>,
     deposits |-> <<"deposits", "deposit", "credit">>,
     balance |-> <<"balance", "bal">>]
Roles == DOMAIN Needles

DetectColumns(cols) == [role \in Roles |-> first_match(cols, Needles[role])]

\* t[col]: a Series when one column has that name; with the name repeated it
\* is a DataFrame, which pd.to_datetime, .str and the assignment to one
\* column of out all refuse
Repeated(t, col) == Cardinality({j \in 1..Len(t.headers) : t.headers[j] = col}) > 1
Cell(t, r, col) == t.rows[r][CHOOSE j \in 1..Len(t.headers) : t.headers[j] = col]

\* the cell left as it is
fillna_skipped(x) == x

\* Series.fillna(0), one cell
fillna0(x) == IF IsNaN(x) THEN Zero ELSE x

\* every row kept
dropna_rows_skipped(rows, column) == rows

\* out.dropna(subset=[column]) for the date column, whose null is NaT
dropna_rows(rows, column) ==
    LET keep == Sorted({r \in 1..Len(rows) : rows[r][column] # NaT})
    IN  [i \in 1..Len(keep) |-> rows[keep[i]]]

CoreColumns == {"transaction_date", "transaction_description", "transaction_amount"}

\* lines 64-117 for the table t read from the file
Standardize(t0, keep_extra) ==
    LET t == NormalizeHeaders(dropna_columns(t0))
        detected == DetectColumns(t.headers)
        date_col == detected.date
        desc_col == detected.description
        ref_col == detected.ref
        withdraw_col == detected.withdrawals
        deposit_col == detected.deposits
        balance_col == detected.balance
        optional == (IF ref_col # None THEN {"reference"} ELSE {})
                        \cup (IF balance_col # None THEN {"running_balance"} ELSE {})
        final_cols == CoreColumns \cup (IF keep_extra THEN optional ELSE {})
        wd(r) == IF withdraw_col # None THEN parse_money(Cell(t, r, withdraw_col))
                 ELSE Zero
        dp(r) == IF deposit_col # None THEN parse_money(Cell(t, r, deposit_col))
                 ELSE Zero
        out(r) ==
            [c \in CoreColumns \cup optional |->
                IF c = "transaction_date" THEN to_datetime(Cell(t, r, date_col))
                ELSE IF c = "transaction_description"
                THEN IF desc_col = None THEN "" ELSE astype_str(Cell(t, r, desc_col))
                ELSE IF c = "reference" THEN astype_str(Cell(t, r, ref_col))
                ELSE IF c = "transaction_amount"
                THEN fillna0(FSub(fillna0(dp(r)), fillna0(wd(r))))
                ELSE parse_money(Cell(t, r, balance_col))]
        \* reset_index(drop=True) numbers the rows that are left from 1
        dated == dropna_rows([r \in 1..Len(t.rows) |-> out(r)], "transaction_date")
    IN  IF date_col = None THEN Raised
        ELSE IF \E role \in Roles : detected[role] # None /\ Repeated(t, detected[role])
        THEN Raised
        ELSE Returned(
                [out |-> Frame(final_cols,
                               [i \in 1..Len(dated) |->
                                   [c \in final_cols |-> dated[i][c]]]),
                 detected |-> detected])

\* load_transactions_from_file(path, keep_extra), `table` being what the file
\* at path holds
load_transactions_from_file(path, table, keep_extra) ==
    LET kind == FileType(path)
    IN  IF kind = "unsupported" THEN Raised
        ELSE IF kind = "pdf" THEN Standardize(PdfFrame(table), keep_extra)
        ELSE Standardize(table, keep_extra)
(***************************************************************************)
(* The normalizer alone: a caller holds the arguments of one call of       *)
(* _first_match or of load_transactions_from_file, and makes it.           *)
(***************************************************************************)
\* bank statement layouts: the header of each column and the field of a
\* statement line that the bank writes in it
Column(header, field) == [header |-> header, field |-> field]
Layouts ==
    { <<Column("Date", "date"), Column("Description", "text"),
        Column("Withdrawals", "out"), Column("Deposits", "in"),
        Column("Balance", "balance")>>,
      <<Column("Posting Date", "date"), Column("Debit", "blank"),
        Column("Withdrawals", "out")>>,
      <<Column(" Trans. Date ", "date"), Column("WITHDRAW  AMT", "out"),
        Column("Credit", "in"), Column("Ref No.", "text")>>,
      <<Column("Date", "date"), Column("Withdrawls", "out"), Column("Bal", "balance")>>,
      <<Column("Date", "date"), Column("Debit/Credit", "in")>>,
      <<Column("Date", "date"), Column("DATE", "date"), Column("Deposit", "in")>>,
      <<Column("Date", "date"), Column("Details", "text"), Column("Amount", "in")>>,
      <<Column("Details", "text"), Column("Amount", "in")>> }

Line(date, text, out, in, balance) ==
    [date |-> date, text |-> text, out |-> out, in |-> in, balance |-> balance,
     blank |-> NA]

\* statement lines that differ in their date
DatedLines ==
    { Line("2024-03-02", "Rent", "40", "0", "1,000.00"),
      Line("2024-01-15", "Pay", "0", "100", NA),
      Line("pending", "Hold", "40", NA, "abc"),
      Line(NA, "Previous balance", NA, NA, "$960.00") }

\* the ways a bank writes, or leaves out, an amount
MoneyCells ==
    {"100", "0", "40", "$1,234.56", "(1,234.56)", "1234.56", " 1234.56 ",
     "-40", "", "abc", NA}
MoneyLines ==
    {Line("2024-01-15", "Card", out, in, out) : out \in MoneyCells, in \in MoneyCells}

TableOf(layout, lines) ==
    Table([j \in 1..Len(layout) |-> layout[j].header],
          [r \in 1..Len(lines) |-> [j \in 1..Len(layout) |-> lines[r][layout[j].field]]])

LineSeqs ==
    UNION {[1..k -> DatedLines] : k \in 0..MaxTableRows}
        \cup {<<line>> : line \in MoneyLines}

Tables == {TableOf(layout, lines) : layout \in Layouts, lines \in LineSeqs}
Paths == {"statement.csv", "Statement.XLSX", "statement.pdf", "statement.txt"}

MatchRequests ==
    {[fn |-> "_first_match",
      cols |-> [j \in 1..Len(layout) |-> norm(layout[j].header)],
      needles |-> Needles[role]] : layout \in Layouts, role \in Roles}
\* the cells of a money column: the amounts above and more ways of writing
\* 1234.56 and 40, or nothing
SeriesCells ==
    MoneyCells \cup {"1,234.56", "$ 1 234.56", "($1,234.56)", "$(40)", "(40", "  ", "$"}
ParseRequests ==
    [fn : {"_parse_money"}, is_none : {FALSE},
     series : UNION {[1..k -> SeriesCells] : k \in 0..MaxSeries}]
        \cup [fn : {"_parse_money"}, is_none : {TRUE}, series : {<<>>}]
\* app.py passes keep_extra=True; a direct caller may leave the default False
LoadRequests ==
    [fn : {"load_transactions_from_file"}, path : Paths, table : Tables,
     keep_extra : {TRUE}]
        \cup [fn : {"load_transactions_from_file"}, path : {"statement.csv"},
              table : Tables, keep_extra : {FALSE}]

InitNormalizer ==
    /\ in_sessions = FALSE
    /\ dataframes = <<>>
    /\ budget = <<>>
    /\ chatbot = <<>>
    /\ resp = 0
    /\ goal_input = NoGoalInput
    /\ request \in MatchRequests \cup ParseRequests \cup LoadRequests
    /\ result = <<>>
    /\ chatbot_sessions = <<>>
    /\ uploads = <<>>
    /\ threads = <<>>

FirstMatch ==
    /\ request.fn = "_first_match"
    /\ result = <<>>
    /\ result' = <<first_match(request.cols, request.needles)>>
    /\ UNCHANGED <<in_sessions, dataframes, budget, chatbot, resp, goal_input, request,
                   chatbot_sessions, uploads, threads>>

ParseMoney ==
    /\ request.fn = "_parse_money"
    /\ result = <<>>
    /\ result' = <<parse_money_series(request.is_none, request.series)>>
    /\ UNCHANGED <<in_sessions, dataframes, budget, chatbot, resp, goal_input, request,
                   chatbot_sessions, uploads, threads>>

LoadFile ==
    /\ request.fn = "load_transactions_from_file"
    /\ result = <<>>
    /\ result' = <<load_transactions_from_file(request.path, request.table,
                                                request.keep_extra)>>
    /\ UNCHANGED <<in_sessions, dataframes, budget, chatbot, resp, goal_input, request,
                   chatbot_sessions, uploads, threads>>

NextNormalizer == FirstMatch \/ ParseMoney \/ LoadFile

SpecNormalizer == InitNormalizer /\ [][NextNormalizer]_vars

Min(S) == CHOOSE x \in S : \A y \in S : x <= y
Matched == request.fn = "_first_match" /\ result # <<>>
Loaded == request.fn = "load_transactions_from_file" /\ result # <<>>
LoadedOut == result[1].value.out
Detected == result[1].value.detected

\* the positions of the headers that contain the needle
HeadersWith(cols, needle) == {j \in 1..Len(cols) : Contains(cols[j], needle)}
\* the positions of the needles that occur in some header
NeedlesIn(cols, needles) ==
    {k \in 1..Len(needles) : HeadersWith(cols, needles[k]) # {}}
\* the first header, in header order, with the earliest such needle
FirstOfEarliest(cols, needles) ==
    cols[Min(HeadersWith(cols, needles[Min(NeedlesIn(cols, needles))]))]

\* the table whose columns the loaded file's roles were looked up in, and
\* its headers
SeenTable ==
    LET read == IF FileType(request.path) = "pdf" THEN PdfFrame(request.table)
                ELSE request.table
    IN  NormalizeHeaders(dropna_columns(read))
SeenHeaders == SeenTable.headers

CellsOf(t, col) ==
    LET j == CHOOSE k \in 1..Len(t.headers) : t.headers[k] = col
    IN  [r \in 1..Len(t.rows) |-> t.rows[r][j]]

\* the money a role's column gives by source row: 0 for a missing column
\* and for a blank or unparseable cell
MoneyOrZero(t, col) ==
    [r \in 1..Len(t.rows) |->
        IF col = None THEN Zero
        ELSE LET parsed == parse_money(CellsOf(t, col)[r])
             IN  IF IsNaN(parsed) THEN Zero ELSE parsed]

\* the source rows whose date cell is a date, in source order, and the others
DatedRows(dates) == Sorted({r \in 1..Len(dates) : to_datetime(dates[r]) # NaT})
BadDates(dates) == {r \in 1..Len(dates) : to_datetime(dates[r]) = NaT}

\* C18: normalization fails, emitting no transactions, if and only if no
\* normalized header matches the date role; an unresolved description,
\* reference, withdrawal, deposit or balance role never makes it fail, and an
\* unresolved withdrawal or deposit column counts as zero in every row.
C18_FailsOnlyWithoutDate ==
    (Loaded /\ FileType(request.path) # "unsupported") =>
        /\ result[1].raised <=> NeedlesIn(SeenHeaders, Needles.date) = {}
        /\ ~result[1].raised =>
              ((Detected.withdrawals = None /\ Detected.deposits = None) =>
                  \A i \in 1..Len(LoadedOut.rows) :
                      LoadedOut.rows[i]["transaction_amount"] = Zero)

\* C19: every retained row has transaction_amount = parsed deposit - parsed
\* withdrawal, a missing column and a blank or unparseable cell counting as
\* 0 (deposit 100 and withdrawal 0 give 100, deposit 0 and withdrawal 40 give
\* -40), and transaction_amount is never null.
C19_AmountIsDepositMinusWithdrawal ==
    (Loaded /\ ~result[1].raised) =>
        LET t == SeenTable
            rows == LoadedOut.rows
            dated == DatedRows(CellsOf(t, Detected.date))
            deposit == MoneyOrZero(t, Detected.deposits)
            withdrawal == MoneyOrZero(t, Detected.withdrawals)
            both == /\ Detected.deposits # None
                    /\ Detected.withdrawals # None
                    /\ Detected.deposits # Detected.withdrawals
        IN  /\ Len(rows) = Len(dated)
            /\ \A i \in 1..Len(rows) :
                  LET amount == rows[i]["transaction_amount"]
                      r == dated[i]
                  IN  /\ ~IsNaN(amount)
                      /\ amount = FSub(deposit[r], withdrawal[r])
                      /\ both =>
                            LET dp == CellsOf(t, Detected.deposits)[r]
                                wd == CellsOf(t, Detected.withdrawals)[r]
                            IN  /\ (dp = "100" /\ wd = "0") => amount = Num(100)
                                /\ (dp = "0" /\ wd = "40") => amount = Num(-40)

\* a retained row with deposit 0 and withdrawal 40, whose amount is -40
C19_Witness ==
    /\ Loaded
    /\ ~result[1].raised
    /\ Detected.deposits # None
    /\ Detected.withdrawals # None
    /\ Len(LoadedOut.rows) = 1
    /\ Len(SeenTable.rows) = 1
    /\ CellsOf(SeenTable, Detected.deposits)[1] = "0"
    /\ CellsOf(SeenTable, Detected.withdrawals)[1] = "40"
    /\ LoadedOut.rows[1]["transaction_amount"] = Num(-40)

Parsed == request.fn = "_parse_money" /\ result # <<>>

\* the text of a cell without surrounding whitespace, and whether it is
\* fully enclosed in parentheses
Stripped(cell) == strip(astype_str(cell))
Enclosed(cell) ==
    LET s == Stripped(cell)
    IN  Len(s) >= 2 /\ Char(s, 1) = "(" /\ Char(s, Len(s)) = ")"
\* what is left of it without $, commas, spaces and parentheses
Bare(cell) == Remove(Stripped(cell), {"$", ",", " ", "(", ")"})
\* a text that is no number: empty, or with a character no number has
NonNumeric(text) ==
    \/ text = ""
    \/ \E i \in 1..Len(text) :
          ~IsDigit(Char(text, i)) /\ Char(text, i) \notin {".", "-", "+"}

\* C21: the money parser strips surrounding whitespace, $, thousands commas
\* and embedded spaces, and negates a value fully enclosed in parentheses:
\* "$1,234.56" is 1234.56, "(1,234.56)" is -1234.56, "1234.56" and
\* " 1234.56 " are 1234.56; a value that is empty or non-numeric after
\* stripping is null, not zero.
C21_MoneyParser ==
    Parsed =>
        LET series == request.series
            out == result[1]
        IN  /\ Len(out) = Len(series)
            /\ \A i \in 1..Len(series) :
                  /\ series[i] = "$1,234.56" => out[i] = Float(123456, 100)
                  /\ series[i] = "(1,234.56)" => out[i] = Float(-123456, 100)
                  /\ series[i] = "1234.56" => out[i] = Float(123456, 100)
                  /\ series[i] = " 1234.56 " => out[i] = Float(123456, 100)
                  /\ (series[i] = NA \/ NonNumeric(Bare(series[i])))
                        => (IsNaN(out[i]) /\ out[i] # Zero)
            /\ \A i, j \in 1..Len(series) :
                  /\ (Bare(series[i]) = Bare(series[j])
                      /\ Enclosed(series[i]) = Enclosed(series[j]))
                        => out[i] = out[j]
                  /\ (Bare(series[i]) = Bare(series[j])
                      /\ Enclosed(series[i]) /\ ~Enclosed(series[j]))
                        => out[i] = FNeg(out[j])

\* a series of a value in parentheses, thousands comma and $, and of the
\* same digits written plainly: the first is minus the second
C21_Witness ==
    /\ Parsed
    /\ request.series = <<"($1,234.56)", " 1234.56 ">>
    /\ result[1] = <<Float(-123456, 100), Float(123456, 100)>>

\* the cells of a role's column by source row, blank where the role has none
RoleCells(t, col) ==
    IF col = None THEN [r \in 1..Len(t.rows) |-> NA] ELSE CellsOf(t, col)
Blank(cell) == cell = NA \/ strip(cell) = ""

\* C22: the sign of an amount follows its source column: a row whose only
\* non-blank money cell is in the withdrawal column has transaction_amount
\* <= 0, one whose only non-blank money cell is in the deposit column has
\* transaction_amount >= 0, whatever the formatting of the cell, parentheses
\* and a leading minus included.
C22_SignFollowsColumn ==
    (Loaded /\ ~result[1].raised) =>
        LET t == SeenTable
            rows == LoadedOut.rows
            dated == DatedRows(CellsOf(t, Detected.date))
            deposit == RoleCells(t, Detected.deposits)
            withdrawal == RoleCells(t, Detected.withdrawals)
        IN  Detected.deposits # Detected.withdrawals =>
                \A i \in 1..Len(rows) :
                    LET amount == rows[i]["transaction_amount"]
                        r == dated[i]
                    IN  /\ (Blank(deposit[r]) /\ ~Blank(withdrawal[r]))
                              => ~FGt(amount, Zero)
                        /\ (Blank(withdrawal[r]) /\ ~Blank(deposit[r]))
                              => ~FGt(Zero, amount)

\* C26: no source header is assigned to two roles: the headers resolved for
\* date, description, reference, withdrawal, deposit and balance are
\* pairwise distinct, so the withdrawal and the deposit of a row are never
\* read from the same column.
C26_RolesHaveDistinctHeaders ==
    (Loaded /\ ~result[1].raised) =>
        \A a, b \in Roles :
            (a # b /\ Detected[a] # None) => Detected[a] # Detected[b]

\* Python's == on two floats: NaN equals nothing, itself included
PyEq(x, y) == ~IsNaN(x) /\ ~IsNaN(y) /\ x = y

\* C25: in every result of analyze_current_spending the values of
\* category_breakdown add up to total_spent, whatever the transactions and
\* their category_type values are.
C25_BreakdownSumsToTotal ==
    HasLedger =>
        LET current == analyze_current_spending(Ledger)
        IN  PyEq(SumValues(current.category_breakdown), current.total_spent)


(***************************************************************************)
(* app.py: /api/upload served for several requests at once.  app.run       *)
(* starts the development server, which serves each request in a thread    *)
(* of its own; the threads share chatbot_sessions and UPLOAD_FOLDER and no *)
(* lock is taken.  A thread moves between the calls of upload_file: the    *)
(* file saved, read, the frame appended, the chatbot built, the file       *)
(* looked for and removed.  The content of a file is the frame             *)
(* load_transactions_from_file returns for it.                             *)
(***************************************************************************)
MaxThreads == 2
SessionIds == {"default", "s2"}
Filenames == {"statement.csv", "../statement.csv", "may.csv"}

\* filename.replace("/", " ")
RECURSIVE SeparatorsToSpaces(_)
SeparatorsToSpaces(s) ==
    IF s = "" THEN ""
    ELSE LET ch == Char(s, Len(s))
         IN  SeparatorsToSpaces(SubSeq(s, 1, Len(s) - 1)) \o (IF ch = "/" THEN " " ELSE ch)

\* re.sub(r'[^A-Za-z0-9_.-]', '', s)
RECURSIVE KeepSafe(_)
KeepSafe(s) ==
    IF s = "" THEN ""
    ELSE LET ch == Char(s, Len(s))
         IN  KeepSafe(SubSeq(s, 1, Len(s) - 1))
                \o (IF IsWord(ch) \/ ch \in {".", "-"} THEN ch ELSE "")

\* str.strip("._")
RECURSIVE StripDotsAndUnderscores(_)
StripDotsAndUnderscores(s) ==
    IF s = "" THEN ""
    ELSE IF Char(s, 1) \in {".", "_"} THEN StripDotsAndUnderscores(SubSeq(s, 2, Len(s)))
    ELSE IF Char(s, Len(s)) \in {".", "_"}
    THEN StripDotsAndUnderscores(SubSeq(s, 1, Len(s) - 1))
    ELSE s

\* werkzeug's secure_filename for an ASCII name: the path separator becomes
\* a space, the words are joined by "_", the characters other than letters,
\* digits, "_", "." and "-" go, and "." and "_" are stripped from the ends
secure_filename(filename) ==
    StripDotsAndUnderscores(
        KeepSafe(SpaceRunsToUnderscore(strip(SeparatorsToSpaces(filename)))))

\* the requests: each has its session id, the name and the content of its
\* file; filepath and df are the locals of upload_file
UploadRequests ==
    [session_id : SessionIds, filename : Filenames, file : Files,
     pc : {"save"}, filepath : {""}, df : {<<>>}, resp : {0}]

InitUploads ==
    /\ in_sessions = FALSE
    /\ dataframes = <<>>
    /\ budget = <<>>
    /\ chatbot = <<>>
    /\ resp = 0
    /\ goal_input = NoGoalInput
    /\ request = NoRequest
    /\ result = <<>>
    /\ chatbot_sessions = <<>>
    /\ uploads = <<>>
    /\ threads \in [1..MaxThreads -> UploadRequests]

\* filename = secure_filename(file.filename); filepath = os.path.join(
\* UPLOAD_FOLDER, filename); file.save(filepath)
UploadSave ==
    \E t \in DOMAIN threads :
        LET filepath == "uploads/" \o secure_filename(threads[t].filename)
        IN  /\ threads[t].pc = "save"
            /\ uploads' = DictPut(uploads, filepath, threads[t].file)
            /\ threads' = [threads EXCEPT ![t].pc = "load", ![t].filepath = filepath]
            /\ UNCHANGED <<in_sessions, dataframes, budget, chatbot, resp, goal_input,
                           request, result, chatbot_sessions>>

\* df = load_transactions_from_file(filepath, keep_extra=True); the reader
\* raises when no file is at filepath
UploadLoad ==
    \E t \in DOMAIN threads :
        LET filepath == threads[t].filepath
        IN  /\ threads[t].pc = "load"
            /\ threads' = IF filepath \in DOMAIN uploads
                          THEN [threads EXCEPT ![t].pc = "append",
                                               ![t].df = <<uploads[filepath]>>]
                          ELSE [threads EXCEPT ![t].pc = "exists", ![t].resp = 500]
            /\ UNCHANGED <<in_sessions, dataframes, budget, chatbot, resp, goal_input,
                           request, result, chatbot_sessions, uploads>>

\* the session's entry made if there is none, and the frame appended
UploadAppend ==
    \E t \in DOMAIN threads :
        LET session_id == threads[t].session_id
            entry == DictGet(chatbot_sessions, session_id,
                             [dataframes |-> <<>>, chatbot |-> <<>>, budget |-> <<>>])
        IN  /\ threads[t].pc = "append"
            /\ chatbot_sessions' =
                   DictPut(chatbot_sessions, session_id,
                           [entry EXCEPT !.dataframes = Append(@, threads[t].df[1])])
            /\ threads' = [threads EXCEPT ![t].pc = "build"]
            /\ UNCHANGED <<in_sessions, dataframes, budget, chatbot, resp, goal_input,
                           request, result, uploads>>

\* the chatbot built from all the frames of the session, its goals set, the
\* statistics of df computed; the classification service answers each row
\* with an income label or fails
UploadBuild ==
    \E t \in DOMAIN threads :
        LET session_id == threads[t].session_id
            entry == chatbot_sessions[session_id]
            combined_df == ConcatAll(entry.dataframes)
            answers == {Response("object", "Salary", "income"),
                        Response("raise", Absent, Absent)}
        IN  /\ threads[t].pc = "build"
            /\ \E responses \in [1..Len(combined_df.rows) -> answers] :
                LET made == FinancialChatbot(combined_df, responses)
                    set == set_budget_goals(made.value, DefaultGoals.expenses,
                                            DefaultGoals.wants, DefaultGoals.savings)
                IN  IF made.raised
                    THEN /\ chatbot_sessions' = chatbot_sessions
                         /\ threads' = [threads EXCEPT ![t].pc = "exists",
                                                       ![t].resp = 500]
                    ELSE /\ chatbot_sessions' =
                                [chatbot_sessions EXCEPT
                                    ![session_id].chatbot = <<set.self>>]
                         /\ threads' =
                                [threads EXCEPT
                                    ![t].pc = "exists",
                                    ![t].resp =
                                        IF set.raised \/ Len(threads[t].df[1].rows) = 0
                                        THEN 500 ELSE 200]
            /\ UNCHANGED <<in_sessions, dataframes, budget, chatbot, resp, goal_input,
                           request, result, uploads>>

\* finally: if os.path.exists(filepath)
UploadExists ==
    \E t \in DOMAIN threads :
        /\ threads[t].pc = "exists"
        /\ threads' = [threads EXCEPT
                          ![t].pc = IF threads[t].filepath \in DOMAIN uploads
                                    THEN "remove" ELSE "done"]
        /\ UNCHANGED <<in_sessions, dataframes, budget, chatbot, resp, goal_input,
                       request, result, chatbot_sessions, uploads>>

\* os.remove(filepath), which raises when the file is gone: the outer except
\* answers 500
UploadRemove ==
    \E t \in DOMAIN threads :
        LET filepath == threads[t].filepath
        IN  /\ threads[t].pc = "remove"
            /\ uploads' = [p \in DOMAIN uploads \ {filepath} |-> uploads[p]]
            /\ threads' = [threads EXCEPT
                              ![t].pc = "done",
                              ![t].resp = IF filepath \in DOMAIN uploads THEN @ ELSE 500]
            /\ UNCHANGED <<in_sessions, dataframes, budget, chatbot, resp, goal_input,
                           request, result, chatbot_sessions>>

NextUploads ==
    \/ UploadSave
    \/ UploadLoad
    \/ UploadAppend
    \/ UploadBuild
    \/ UploadExists
    \/ UploadRemove

SpecUploads == InitUploads /\ [][NextUploads]_vars


\* the files the requests of a session carry
UploadedUnder(session_id) ==
    {threads[t].file : t \in {u \in DOMAIN threads : threads[u].session_id = session_id}}

\* C23: whatever the interleaving of the uploads, every frame ingested into
\* a session comes from a file uploaded under that session id, also when two
\* sessions upload files of the same name at once.
C23_LedgersNotShared ==
    \A session_id \in DOMAIN chatbot_sessions :
        \A i \in 1..Len(chatbot_sessions[session_id].dataframes) :
            chatbot_sessions[session_id].dataframes[i] \in UploadedUnder(session_id)


(***************************************************************************)
(* app.py: /api/chat and /api/add-transaction served at once for one       *)
(* session that has a ledger.  Both handlers take the chatbot out of       *)
(* chatbot_sessions and call its methods; no lock is taken, so a thread    *)
(* can be suspended between two calls.                                     *)
(***************************************************************************)
InitChats ==
    /\ in_sessions = TRUE
    /\ dataframes = <<>>
    /\ budget = <<>>
    /\ chatbot \in {<<self>> : self \in Ledgers}
    /\ resp = 0
    /\ goal_input = NoGoalInput
    /\ request = NoRequest
    /\ result = <<>>
    /\ chatbot_sessions = <<>>
    /\ uploads = <<>>
    /\ threads \in [1..MaxThreads ->
                       [route : {"chat"}, pc : {"analyze"}, spending_analysis : {<<>>},
                        summary : {<<>>}, resp : {0}]
                       \cup [route : {"add-transaction"}, pc : {"add"},
                             data : {r \in AddRequests : r.category = "Gift"},
                             resp : {0}]]

\* chat: spending_analysis = chatbot.analyze_current_spending()
ChatAnalyze ==
    \E t \in DOMAIN threads :
        /\ threads[t].pc = "analyze"
        /\ threads' = [threads EXCEPT
                          ![t].pc = "summary",
                          ![t].spending_analysis = <<analyze_current_spending(Ledger)>>]
        /\ UNCHANGED <<in_sessions, dataframes, budget, chatbot, resp, goal_input,
                       request, result, chatbot_sessions, uploads>>

\* chat: summary = chatbot.get_summary(), then the context built from the
\* two and sent; 500 when call_groq_api raises
ChatSummary ==
    \E t \in DOMAIN threads :
        /\ threads[t].pc = "summary"
        /\ \E status \in {200, 500} :
            threads' = [threads EXCEPT ![t].pc = "done",
                                       ![t].summary = <<get_summary(Ledger)>>,
                                       ![t].resp = status]
        /\ UNCHANGED <<in_sessions, dataframes, budget, chatbot, resp, goal_input,
                       request, result, chatbot_sessions, uploads>>

\* add_transaction: chatbot.add_transaction(...) appends to the ledger the
\* chat reads
ChatAdd ==
    \E t \in DOMAIN threads :
        LET data == threads[t].data
            r == add_transaction(Ledger, data.amount, data.category, data.category_type,
                                 data.response, data.advice_ok)
        IN  /\ threads[t].pc = "add"
            /\ chatbot' = <<r.self>>
            /\ threads' = [threads EXCEPT ![t].pc = "done",
                                          ![t].resp = IF r.raised THEN 500 ELSE 200]
            /\ UNCHANGED <<in_sessions, dataframes, budget, resp, goal_input, request,
                           result, chatbot_sessions, uploads>>

NextChats == ChatAnalyze \/ ChatSummary \/ ChatAdd

SpecChats == InitChats /\ [][NextChats]_vars

=============================================================================
